---- MODULE Spec2Model ----
(***************************************************************************)
(* LiveStack: the recommendation backend (src/backend/main.py) and its     *)
(* Streamlit client (src/frontend/app.py) as one state machine.            *)
(*                                                                         *)
(* Python values are tagged records, so that truthiness (`not x`) and      *)
(* identity with None (`x is None`) stay different tests, as in the code.  *)
(* A dict is a function from its keys to Python values.                    *)
(***************************************************************************)
EXTENDS Integers, Sequences, FiniteSets, TLC

VARIABLES
    regions,          \* backend: the module global REGIONS
    videos,           \* backend: the module global VIDEOS
    uuid_n,           \* backend: number of identifiers uuid.uuid4() has produced
    stdout,           \* backend: the lines print() has written
    now,              \* the UTC clock: one tick per request or click
    req,              \* the last HTTP request the backend received
    resp,             \* the HTTP response the backend gave to it
    returned,         \* the recommendations returned so far: <<content_id, title>>
    rated,            \* the rating submissions answered so far: <<payload, json>>
    current_rec,      \* client: st.session_state.current_rec
    last_latency_ms,  \* client: st.session_state.last_latency_ms
    logs,             \* client: st.session_state.logs
    call,             \* client: the last helper call or button click
    ret               \* client: what that helper returned

vars == <<regions, videos, uuid_n, stdout, now, req, resp, returned, rated,
          current_rec, last_latency_ms, logs, call, ret>>

backend == <<regions, videos, uuid_n, stdout, req, resp, returned, rated>>
session == <<current_rec, last_latency_ms, logs>>

\* ---------------------------------------------------------------- bounds
MaxCalls == 3     \* requests explored
MaxHelperCalls == 3  \* helper calls and requests explored
MaxClicks == 3    \* button clicks explored in one client session

\* ---------------------------------------------------------------- Python values
None == [t |-> "NoneType", i |-> 0, s |-> ""]
PyStr(x) == [t |-> "str", i |-> 0, s |-> x]
PyInt(n) == [t |-> "int", i |-> n, s |-> ""]
PyBool(b) == [t |-> "bool", i |-> IF b THEN 1 ELSE 0, s |-> ""]

\* bool(v): None, 0, False and "" are falsy
Truthy(v) ==
    CASE v.t = "NoneType" -> FALSE
      [] v.t = "str" -> v.s # ""
      [] OTHER -> v.i # 0

\* str(v), as an f-string formats a value
str(v) ==
    CASE v.t = "NoneType" -> "None"
      [] v.t = "str" -> v.s
      [] v.t = "bool" -> IF v.i = 1 THEN "True" ELSE "False"
      [] OTHER -> ToString(v.i)

EmptyDict == [k \in {} |-> None]

\* dict.get(key): None when the key is missing
DictGet(d, key) == IF key \in DOMAIN d THEN d[key] ELSE None

\* ---------------------------------------------------------------- backend
REGIONS == <<"edge-us-1", "edge-eu-1", "edge-apac-1">>

VIDEOS == <<
    [title |-> "How TikTok Recommends Videos",
     body |-> "A deep dive into real-time recommendation engines."],
    [title |-> "Distributed Systems 101",
     body |-> "What every engineer should know about distributed computing."],
    [title |-> "Murdoch vs Redstone",
     body |-> "The history of media empires and power."],
    [title |-> "Building a CDN Simulator",
     body |-> "Simulating multi-edge routing and latency."],
    [title |-> "Ellison's AI Cluster",
     body |-> "Inside Oracle's 1.2 billion-watt GPU brain."] >>

\* random.choice(seq): any element; no element at all (IndexError) when empty
choice_first(seq) == IF seq = <<>> THEN {} ELSE {seq[1]}
choice(seq) == {seq[i] : i \in DOMAIN seq}

\* str(uuid.uuid4()) for the n-th identifier drawn from the random source:
\* the generator's contract is that a drawn value has not been drawn before
uuid4_once(n) == "uuid-1"
uuid4(n) == "uuid-" \o ToString(n)

\* datetime.utcnow().isoformat()
isoformat(t) == "T" \o ToString(t)

\* lines 38-42: the servers the request may resolve to
server_falsy_hint(server_hint) ==
    IF ~Truthy(server_hint) THEN {PyStr(r) : r \in choice(regions)} ELSE {server_hint}
server_known_only(server_hint) ==
    IF server_hint = None \/ server_hint.s \notin choice(regions)
    THEN {PyStr(r) : r \in choice(regions)} ELSE {server_hint}
server(server_hint) ==
    IF server_hint = None THEN {PyStr(r) : r \in choice(regions)} ELSE {server_hint}

InternalServerError == [status_code |-> 500, json |-> EmptyDict]

\* GET /recommend: the HTTP responses the handler may give. An exception
\* raised by random.choice leaves the handler before uuid4 is called.
recommend(server_hint) ==
    IF server(server_hint) = {} \/ choice(videos) = {}
    THEN {InternalServerError}
    ELSE {[status_code |-> 200,
           json |-> [content_id |-> PyStr(uuid4(uuid_n + 1)),
                     title |-> PyStr(video.title),
                     body |-> PyStr(video.body),
                     server_id |-> srv,
                     server_region |-> srv,
                     timestamp |-> PyStr(isoformat(now))]] :
             srv \in server(server_hint), video \in choice(videos)}

RateLine(content_id, rating) ==
    "[RATE] content_id=" \o str(content_id) \o " rating=" \o str(rating)

Invalid == [status |-> PyStr("error"), message |-> PyStr("Invalid payload")]
Ok == [status |-> PyStr("ok")]

\* POST /rate: the lines printed and the JSON returned
rate_falsy_rating(payload) ==
    LET content_id == DictGet(payload, "content_id")
        rating == DictGet(payload, "rating")
    IN  IF ~Truthy(content_id) \/ ~Truthy(rating)
        THEN [out |-> <<>>, json |-> Invalid]
        ELSE [out |-> <<RateLine(content_id, rating)>>, json |-> Ok]
rate_print_first(payload) ==
    LET content_id == DictGet(payload, "content_id")
        rating == DictGet(payload, "rating")
    IN  IF ~Truthy(content_id) \/ rating = None
        THEN [out |-> <<RateLine(content_id, rating)>>, json |-> Invalid]
        ELSE [out |-> <<RateLine(content_id, rating)>>, json |-> Ok]
rate_issued_only(payload) ==
    LET content_id == DictGet(payload, "content_id")
        rating == DictGet(payload, "rating")
    IN  IF ~Truthy(content_id) \/ rating = None
           \/ content_id.s \notin {returned[k][1] : k \in DOMAIN returned}
        THEN [out |-> <<>>, json |-> Invalid]
        ELSE [out |-> <<RateLine(content_id, rating)>>, json |-> Ok]
rate(payload) ==
    LET content_id == DictGet(payload, "content_id")
        rating == DictGet(payload, "rating")
    IN  IF ~Truthy(content_id) \/ rating = None
        THEN [out |-> <<>>, json |-> Invalid]
        ELSE [out |-> <<RateLine(content_id, rating)>>, json |-> Ok]

\* ---- the backend serving one request
NoRequest == [op |-> "none", server_hint |-> None, payload |-> EmptyDict]

\* the handler recommend() answers one GET /recommend
ServeRecommend(server_hint) ==
    \E r \in recommend(server_hint) :
        /\ req' = [op |-> "recommend", server_hint |-> server_hint, payload |-> EmptyDict]
        /\ resp' = r
        /\ uuid_n' = IF r.status_code = 200 THEN uuid_n + 1 ELSE uuid_n
        /\ returned' = IF r.status_code = 200
                       THEN Append(returned, <<r.json.content_id.s, r.json.title.s>>)
                       ELSE returned
        /\ UNCHANGED <<regions, videos, stdout, rated>>

\* the handler rate() answers one POST /rate
ServeRate(payload) ==
    /\ req' = [op |-> "rate", server_hint |-> None, payload |-> payload]
    /\ resp' = [status_code |-> 200, json |-> rate(payload).json]
    /\ stdout' = stdout \o rate(payload).out
    /\ rated' = Append(rated, <<payload, rate(payload).json>>)
    /\ UNCHANGED <<regions, videos, uuid_n, returned>>

\* ---- callers of the HTTP interface
Hints == {None, PyStr(""), PyStr("edge-eu-1"), PyStr("edge-mars-9")}

IssuedIds == {returned[k][1] : k \in DOMAIN returned}
TextIds == {PyStr(""), PyStr("abc-123")} \cup {PyStr(c) : c \in IssuedIds}
ContentIds == {None} \cup TextIds
Ratings == {None, PyInt(0), PyInt(4), PyStr("five")}

\* the JSON objects a caller may post: either key may be missing
Payloads ==
    {EmptyDict}
    \cup {[k \in {"content_id"} |-> c] : c \in ContentIds}
    \cup {[k \in {"rating"} |-> r] : r \in Ratings}
    \cup {[content_id |-> c, rating |-> r] : c \in ContentIds, r \in Ratings}

NoCall == [fn |-> "none", net |-> "ok", server_hint |-> None,
           content_id |-> None, rating |-> None]

\* any HTTP caller requests a recommendation
Recommend ==
    /\ now < MaxCalls
    /\ \E server_hint \in Hints : ServeRecommend(server_hint)
    /\ now' = now + 1
    /\ call' = NoCall
    /\ ret' = None
    /\ UNCHANGED session

\* any HTTP caller submits a rating
Rate ==
    /\ now < MaxCalls
    /\ \E payload \in Payloads : ServeRate(payload)
    /\ now' = now + 1
    /\ call' = NoCall
    /\ ret' = None
    /\ UNCHANGED session

\* ---------------------------------------------------------------- client
\* what client.get / client.post may do: answer, fail to connect (the backend
\* never sees the request), or time out after the backend handled the request
Net == {"ok", "down", "lost"}

\* (time.perf_counter() - start) * 1000.0
Latencies == {PyInt(12)}

FailedFetch == [data |-> None, elapsed_ms |-> None]

\* fetch_recommendation(server_hint) over transport behaviour net;
\* ret' is the pair (data, elapsed_ms) it returns
fetch_recommendation(server_hint, net) ==
    LET params == IF Truthy(server_hint)
                  THEN [k \in {"server_hint"} |-> server_hint]
                  ELSE EmptyDict
    IN  /\ IF net = "down"
           THEN UNCHANGED backend
           ELSE ServeRecommend(DictGet(params, "server_hint"))
        /\ \E elapsed_ms \in Latencies :
              ret' = IF net # "ok" \/ resp'.status_code # 200
                     THEN FailedFetch
                     ELSE [data |-> resp'.json, elapsed_ms |-> elapsed_ms]

\* send_rating(content_id, rating) over transport behaviour net;
\* ret' is the bool it returns
send_rating(content_id, rating, net) ==
    LET payload == [content_id |-> content_id, rating |-> rating]
    IN  /\ IF net = "down"
           THEN UNCHANGED backend
           ELSE ServeRate(payload)
        /\ ret' = PyBool(net = "ok" /\ resp'.status_code = 200)

\* a caller uses the helper fetch_recommendation
FetchRecommendation ==
    /\ now < MaxHelperCalls
    /\ \E server_hint \in Hints, net \in Net :
          /\ fetch_recommendation(server_hint, net)
          /\ call' = [fn |-> "fetch_recommendation", net |-> net,
                      server_hint |-> server_hint,
                      content_id |-> None, rating |-> None]
    /\ now' = now + 1
    /\ UNCHANGED session

\* a caller uses the helper send_rating
SendRating ==
    /\ now < MaxHelperCalls
    /\ \E content_id \in TextIds, rating \in {PyInt(0), PyInt(4)}, net \in Net :
          /\ send_rating(content_id, rating, net)
          /\ call' = [fn |-> "send_rating", net |-> net, server_hint |-> None,
                      content_id |-> content_id, rating |-> rating]
    /\ now' = now + 1
    /\ UNCHANGED session

\* ---- main(): one rerun of the script per button click
Selectbox == {"auto", "edge-us-1", "edge-eu-1", "edge-apac-1"}
RatingButtons == 1..5

\* log_event of the "recommend" event
RecommendEvent(rec, latency_ms) ==
    [time |-> PyStr(isoformat(now)),
     event |-> PyStr("recommend"),
     content_id |-> DictGet(rec, "content_id"),
     title |-> DictGet(rec, "title"),
     server_id |-> DictGet(rec, "server_id"),
     server_region |-> DictGet(rec, "server_region"),
     latency_ms |-> latency_ms,
     rating |-> None,
     success |-> PyBool(TRUE)]

\* log_event of the "rate" event
RateEvent(current, content_id, rating, ok) ==
    [time |-> PyStr(isoformat(now)),
     event |-> PyStr("rate"),
     content_id |-> content_id,
     title |-> DictGet(current, "title"),
     server_id |-> DictGet(current, "server_id"),
     server_region |-> DictGet(current, "server_region"),
     latency_ms |-> last_latency_ms,
     rating |-> rating,
     success |-> ok]

\* the "Next recommendation" button
ClickNext_assign_first ==
    /\ now < MaxClicks
    /\ \E server_hint \in Selectbox, net \in Net :
          LET hint == IF server_hint = "auto" THEN None ELSE PyStr(server_hint)
          IN  /\ fetch_recommendation(hint, net)
              /\ call' = [fn |-> "next", net |-> net, server_hint |-> hint,
                          content_id |-> None, rating |-> None]
    /\ current_rec' = ret'.data
    /\ last_latency_ms' = ret'.elapsed_ms
    /\ logs' = IF ret'.data = None THEN logs
               ELSE Append(logs, RecommendEvent(ret'.data, ret'.elapsed_ms))
    /\ now' = now + 1
ClickNext ==
    /\ now < MaxClicks
    /\ \E server_hint \in Selectbox, net \in Net :
          LET hint == IF server_hint = "auto" THEN None ELSE PyStr(server_hint)
          IN  /\ fetch_recommendation(hint, net)
              /\ call' = [fn |-> "next", net |-> net, server_hint |-> hint,
                          content_id |-> None, rating |-> None]
    /\ IF ret'.data = None
       THEN UNCHANGED session
       ELSE /\ current_rec' = ret'.data
            /\ last_latency_ms' = ret'.elapsed_ms
            /\ logs' = Append(logs, RecommendEvent(ret'.data, ret'.elapsed_ms))
    /\ now' = now + 1

\* one of the rating buttons 1-5, rendered only while a recommendation is shown
ClickRate ==
    /\ now < MaxClicks
    /\ current_rec # None
    /\ \E rating \in RatingButtons, net \in Net :
          LET content_id == DictGet(current_rec, "content_id")
          IN  /\ IF ~Truthy(content_id)
                 THEN /\ ret' = PyBool(FALSE)
                      /\ UNCHANGED backend
                 ELSE send_rating(content_id, PyInt(rating), net)
              /\ call' = [fn |-> "rate", net |-> net, server_hint |-> None,
                          content_id |-> content_id, rating |-> PyInt(rating)]
              /\ logs' = Append(logs, RateEvent(current_rec, content_id,
                                                PyInt(rating), ret'))
    /\ now' = now + 1
    /\ UNCHANGED <<current_rec, last_latency_ms>>

\* ---------------------------------------------------------------- specifications
\* init_state() and the module-level assignments of main.py
Init ==
    /\ regions = REGIONS
    /\ videos = VIDEOS
    /\ uuid_n = 0
    /\ stdout = <<>>
    /\ now = 0
    /\ req = NoRequest
    /\ resp = [status_code |-> 0, json |-> EmptyDict]
    /\ returned = <<>>
    /\ rated = <<>>
    /\ current_rec = None
    /\ last_latency_ms = None
    /\ logs = <<>>
    /\ call = NoCall
    /\ ret = None

\* the service under arbitrary HTTP callers
Next == Recommend \/ Rate

Spec == Init /\ [][Next]_vars

\* the service under callers that use the client helpers or plain HTTP
NextHelpers ==
    \/ FetchRecommendation
    \/ SendRating
    \/ (now < MaxHelperCalls /\ Recommend)

SpecHelpers == Init /\ [][NextHelpers]_vars

\* one browser session of the Streamlit client in front of the service
NextClient == ClickNext \/ ClickRate

SpecClient == Init /\ [][NextClient]_vars

\* the service started with either list configured empty: main.py runs the
\* same module-level code and begins serving, whatever the lists hold
InitConfig ==
    /\ regions \in {REGIONS, <<>>}
    /\ videos \in {VIDEOS, <<>>}
    /\ uuid_n = 0
    /\ stdout = <<>>
    /\ now = 0
    /\ req = NoRequest
    /\ resp = [status_code |-> 0, json |-> EmptyDict]
    /\ returned = <<>>
    /\ rated = <<>>
    /\ current_rec = None
    /\ last_latency_ms = None
    /\ logs = <<>>
    /\ call = NoCall
    /\ ret = None

NextConfig == Recommend \/ Rate

SpecConfig == InitConfig /\ [][NextConfig]_vars

\* ---------------------------------------------------------------- claims
SetOf(seq) == {seq[k] : k \in DOMAIN seq}

RatedContentId(k) == DictGet(rated[k][1], "content_id")
RatedRating(k) == DictGet(rated[k][1], "rating")

\* C1: no two recommendations returned so far, by whatever callers and with
\* whatever hints, carry the same content_id, also when both selected the same
\* catalog item.
C1_UniqueContentIds ==
    \A i, j \in DOMAIN returned : i # j => returned[i][1] # returned[j][1]

\* two recommendations of the same catalog item have been returned
C1_Witness ==
    \E i, j \in DOMAIN returned :
        /\ i # j
        /\ returned[i][2] = returned[j][2]
        /\ returned[i][1] # returned[j][1]

\* C2: a recommendation requested with a non-empty hint H, known edge or not,
\* is answered with server_id = server_region = H.
C2_HintVerbatim ==
    (req.op = "recommend" /\ req.server_hint # None /\ req.server_hint.s # "")
        => /\ resp.status_code = 200
           /\ resp.json.server_id = req.server_hint
           /\ resp.json.server_region = req.server_hint

\* a hint outside the known-edge set has just been answered
C2_Witness ==
    /\ req.op = "recommend"
    /\ req.server_hint = PyStr("edge-mars-9")
    /\ req.server_hint.s \notin SetOf(REGIONS)
    /\ resp.json.server_id = PyStr("edge-mars-9")

\* C3: a recommendation requested without a hint is answered with a server_id
\* (and server_region) from the known-edge set, and whenever a request can be
\* served each known edge is a possible answer to a request without a hint.
C3_AbsentHintKnownEdge ==
    /\ (req.op = "recommend" /\ req.server_hint = None)
          => /\ resp.status_code = 200
             /\ resp.json.server_id.s \in SetOf(REGIONS)
             /\ resp.json.server_region = resp.json.server_id
    /\ ENABLED Recommend
          => \A r \in SetOf(REGIONS) :
                ENABLED (/\ Recommend
                         /\ req'.server_hint = None
                         /\ resp'.json.server_id = PyStr(r))

\* a request without a hint has just been answered with the last known edge
C3_Witness ==
    /\ req.op = "recommend"
    /\ req.server_hint = None
    /\ resp.json.server_id = PyStr(REGIONS[Len(REGIONS)])

\* C4: a rating submission is always answered (transport status 200); the
\* answer is the validation failure exactly when content_id is absent or empty
\* or rating is absent, and the success outcome in every other case.
C4_RateValidation ==
    req.op = "rate" =>
        LET content_id == DictGet(req.payload, "content_id")
            rating == DictGet(req.payload, "rating")
            rejected == content_id = None \/ content_id = PyStr("") \/ rating = None
        IN  /\ resp.status_code = 200
            /\ rejected => (resp.json.status = PyStr("error")
                            /\ "message" \in DOMAIN resp.json)
            /\ ~rejected => resp.json = Ok

\* a rating of 0 for a non-empty content_id has just been accepted
C4_Witness ==
    /\ req.op = "rate"
    /\ DictGet(req.payload, "content_id") = PyStr("abc-123")
    /\ DictGet(req.payload, "rating") = PyInt(0)
    /\ resp.json = Ok

RECURSIVE AcceptedLines(_)
AcceptedLines(subs) ==
    IF subs = <<>> THEN <<>>
    ELSE LET sub == Head(subs)
         IN  (IF sub[2] = Ok
              THEN <<RateLine(DictGet(sub[1], "content_id"), DictGet(sub[1], "rating"))>>
              ELSE <<>>)
             \o AcceptedLines(Tail(subs))

\* C5: the log holds one line per accepted submission, in acceptance order,
\* with that submission's content_id and rating, and none for a rejected one;
\* answering a submission changes nothing else of the service.
C5_LogPerAcceptedRating ==
    /\ [](stdout = AcceptedLines(rated))
    /\ [][rated' # rated => UNCHANGED <<regions, videos, uuid_n, returned>>]_vars

\* the same pair accepted twice and another submission rejected: two lines
C5_Witness ==
    /\ \E i, j \in DOMAIN rated : i < j /\ rated[i] = rated[j] /\ rated[i][2] = Ok
    /\ \E k \in DOMAIN rated : rated[k][2] = Invalid
    /\ Len(stdout) = 2
    /\ stdout[1] = stdout[2]

C7_Stateless ==
    /\ regions = REGIONS
    /\ videos = VIDEOS
    /\ \A i, j \in DOMAIN rated :
          /\ rated[i][1] = rated[j][1] => rated[i][2] = rated[j][2]
          /\ (/\ Truthy(RatedContentId(i))
              /\ Truthy(RatedContentId(j))
              /\ RatedRating(i) = RatedRating(j))
                => rated[i][2] = rated[j][2]

\* a never-issued and an issued content_id have both been accepted
C7_Witness ==
    \E i, j \in DOMAIN rated :
        /\ RatedContentId(i).s \in IssuedIds
        /\ RatedContentId(j) = PyStr("abc-123")
        /\ RatedContentId(j).s \notin IssuedIds
        /\ rated[i][2] = Ok
        /\ rated[j][2] = Ok

\* C8: send_rating returns True only when the backend accepted the rating, and
\* False when the backend answered with the validation failure or could not be
\* reached.
C8_SendRatingReportsOutcome ==
    call.fn = "send_rating" =>
        /\ ret = PyBool(TRUE) => (call.net = "ok" /\ resp.json = Ok)
        /\ (call.net = "ok" /\ resp.json = Invalid) => ret = PyBool(FALSE)
        /\ call.net = "down" => ret = PyBool(FALSE)

IsEvent(e, kind) == e.event = PyStr(kind)

\* the "recommend" events logged before position i
FetchesBefore(i) == {k \in 1..(i - 1) : IsEvent(logs[k], "recommend")}

Latest(S) == CHOOSE k \in S : \A m \in S : m <= k

\* C9: in a client session every "rate" event, and every rating the backend
\* received, carries the content_id of the latest successful fetch, which the
\* backend issued; no rating precedes the first successful fetch; a failed
\* fetch leaves current_rec, last_latency_ms and logs as they were.
C9_RatesCurrentRecommendation ==
    /\ [](/\ \A i \in DOMAIN logs :
                IsEvent(logs[i], "rate") =>
                    /\ FetchesBefore(i) # {}
                    /\ logs[i].content_id = logs[Latest(FetchesBefore(i))].content_id
                    /\ logs[i].content_id.s \in IssuedIds
          /\ \A k \in DOMAIN rated : RatedContentId(k).s \in IssuedIds
          /\ req.op = "rate" =>
                /\ current_rec # None
                /\ DictGet(req.payload, "content_id") = current_rec.content_id
          /\ rated # <<>> => \E i \in DOMAIN logs : IsEvent(logs[i], "recommend")
          /\ current_rec # None =>
                current_rec.content_id =
                    logs[Latest(FetchesBefore(Len(logs) + 1))].content_id)
    /\ [][(call'.fn = "next" /\ ret'.data = None) => UNCHANGED session]_vars

\* three clicks: a fetch that succeeded, a fetch that failed, and a rating
\* that was sent and accepted
C9_Witness ==
    /\ now = 3
    /\ Len(logs) = 2
    /\ IsEvent(logs[1], "recommend")
    /\ IsEvent(logs[2], "rate")
    /\ logs[2].success = PyBool(TRUE)
    /\ Len(rated) = 1

\* C10: the backend answers a present but empty hint with server_id =
\* server_region = "", which is no known edge; fetch_recommendation never puts
\* an empty hint on the wire, and called with an empty hint it omits the
\* parameter and obtains a known edge.
C10_EmptyHint ==
    /\ (req.op = "recommend" /\ req.server_hint = PyStr(""))
          => /\ resp.status_code = 200
             /\ resp.json.server_id = PyStr("")
             /\ resp.json.server_region = PyStr("")
             /\ resp.json.server_id.s \notin SetOf(REGIONS)
    /\ (call.fn = "fetch_recommendation" /\ call.net # "down")
          => /\ req.op = "recommend"
             /\ req.server_hint # PyStr("")
             /\ call.server_hint = PyStr("")
                   => /\ req.server_hint = None
                      /\ resp.json.server_id.s \in SetOf(REGIONS)

\* the backend has just answered a request whose hint was the empty string
C10_Witness ==
    /\ call.fn = "none"
    /\ req.op = "recommend"
    /\ req.server_hint = PyStr("")
    /\ resp.json.server_id = PyStr("")

====
